---- MODULE Spec2Model ----
(***************************************************************************)
(* A model of statistics_and_trends.py: the education-rate pipeline        *)
(* main() = read_csv ; preprocessing ; three plots ; statistical_analysis  *)
(* ; writing, together with the pandas operations the script calls         *)
(* (rename, head, dropna, mean, std, skew, kurtosis) and Python's float    *)
(* comparison and '.2f' formatting.                                        *)
(*                                                                         *)
(* Tables.  A DataFrame is [columns, rows]: columns is the sequence of     *)
(* column labels, rows the sequence of rows in table order; a row is       *)
(* [index, cells] with the row's index label and one cell per column.  A   *)
(* cell is <<>> when it is missing (NaN/None) and <<v>> when it holds v.   *)
(*                                                                         *)
(* Numbers.  A float is [kind, sgn, root, num, den]: kind "nan", kind      *)
(* "inf" with sgn = -1 or 1, or kind "fin", the real number                *)
(* sgn * num / den, or sgn * sqrt(num / den) when root, with num / den in  *)
(* lowest terms.  The root form keeps the standard deviation and the       *)
(* skewness of integer data exact.                                         *)
(***************************************************************************)
EXTENDS Integers, Sequences, FiniteSets, TLC

VARIABLES pc, raw, df, moments, out, files, calls, err

vars == <<pc, raw, df, moments, out, files, calls, err>>

(* ------------------------------ bounds -------------------------------- *)

\* Most rows of an input table.
MaxRows == 2
\* Education rates of the input tables are 0..MaxRate.
MaxRate == 1
\* Most values of a column handed to statistical_analysis on its own.
MaxLen == 4
\* Squares of the moments handed to writing on its own are num/den with
\* num in 0..MaxNum and den in 1..MaxDen.
MaxNum == 2
MaxDen == 5

(* ------------------------------ tables -------------------------------- *)

old_name == "Share of population with some formal education, 1820-2020"

Null == <<>>

isna(cell) == cell = Null

Range(s) == {s[i] : i \in DOMAIN s}

Min(a, b) == IF a <= b THEN a ELSE b

EmptyFrame == [columns |-> <<>>, rows |-> <<>>]

NoError == [type |-> "", args |-> <<>>]

KeyError(labels) == [type |-> "KeyError", args |-> labels]

\* df.rename(columns={old: new}): every label equal to old becomes new; a
\* mapping key that is no label of the table is ignored (errors='ignore').
rename(t, old, new) ==
    [t EXCEPT !.columns =
        [i \in DOMAIN t.columns |->
            IF t.columns[i] = old THEN new ELSE t.columns[i]]]

\* df.head(): the first five rows.
HeadRows == 5

head(t) == [t EXCEPT !.rows = SubSeq(t.rows, 1, Min(HeadRows, Len(t.rows)))]

\* The positions of the columns labelled by subset (every column so labelled).
SubsetPositions(t, subset) ==
    {j \in DOMAIN t.columns : t.columns[j] \in Range(subset)}

\* how='any': a row is dropped when one of the inspected cells is missing.
mutant_DropRow_how_all(t, row, subset) ==
    \A i \in SubsetPositions(t, subset) : isna(row.cells[i])

mutant_DropRow_no_subset(t, row, subset) ==
    \E i \in DOMAIN row.cells : isna(row.cells[i])

DropRow(t, row, subset) ==
    \E i \in SubsetPositions(t, subset) : isna(row.cells[i])

\* df.dropna(subset=[...]): KeyError listing the labels of subset that are
\* no column; otherwise the rows with no missing cell under subset, in
\* table order, each with its index label and cells as they were.
dropna(t, subset) ==
    LET absent(l) == l \notin Range(t.columns)
        keep(row) == ~DropRow(t, row, subset)
    IN  IF \E i \in DOMAIN subset : absent(subset[i])
        THEN [ok |-> FALSE, df |-> EmptyFrame,
              err |-> KeyError(SelectSeq(subset, absent))]
        ELSE [ok |-> TRUE, df |-> [t EXCEPT !.rows = SelectSeq(t.rows, keep)],
              err |-> NoError]

RequiredColumns == <<"Education_Rate", "Entity", "Year">>

\* preprocessing with a rename that insists on the long column (errors='raise').
mutant_preprocessing_strict(t) ==
    LET renamed == rename(t, old_name, "Education_Rate")
        printed == <<<<"--- Dataset Head ---">>, <<"head", head(renamed)>>>>
        dropped == dropna(renamed, RequiredColumns)
    IN  IF old_name \notin Range(t.columns)
        THEN [ok |-> FALSE, df |-> EmptyFrame, err |-> KeyError(<<old_name>>),
              printed |-> <<>>]
        ELSE [ok |-> dropped.ok, df |-> dropped.df, err |-> dropped.err,
              printed |-> printed]

\* preprocessing(df): what it returns or raises, and what it prints.
preprocessing(t) ==
    LET renamed == rename(t, old_name, "Education_Rate")
        printed == <<<<"--- Dataset Head ---">>, <<"head", head(renamed)>>>>
        dropped == dropna(renamed, RequiredColumns)
    IN  [ok |-> dropped.ok, df |-> dropped.df, err |-> dropped.err,
         printed |-> printed]

(* --------------------------- input tables ----------------------------- *)

\* Headers of the CSV files: the long column, the column already renamed,
\* neither of them, no Year column, and both rate columns at once.
HeaderLong == <<"Entity", "Code", "Year", old_name>>
HeaderRenamed == <<"Entity", "Code", "Year", "Education_Rate">>
HeaderNoRate == <<"Entity", "Code", "Year", "Rate">>
HeaderNoYear == <<"Entity", "Code", "year", old_name>>
HeaderBoth == <<"Entity", "Education_Rate", "Year", old_name>>

Headers == {HeaderLong, HeaderRenamed, HeaderNoRate, HeaderNoYear}

Rates == 0..MaxRate

Opt(S) == {Null} \cup {<<v>> : v \in S}

CellRows == Opt({"Albania"}) \X Opt({0}) \X Opt({2000}) \X Opt(Rates)

\* read_csv numbers the rows 0, 1, ... (a RangeIndex).
Frame(h, cs) ==
    [columns |-> h,
     rows |-> [i \in DOMAIN cs |-> [index |-> i - 1, cells |-> cs[i]]]]

SeqsUpTo(S, n) == UNION {[1..k -> S] : k \in 0..n}

Tables(hs) == {Frame(h, cs) : h \in hs, cs \in SeqsUpTo(CellRows, MaxRows)}

(* ------------------------------ floats -------------------------------- *)

Abs(i) == IF i < 0 THEN -i ELSE i

Sign(i) == IF i < 0 THEN -1 ELSE IF i > 0 THEN 1 ELSE 0

RECURSIVE Gcd(_, _)
Gcd(a, b) == IF b = 0 THEN a ELSE Gcd(b, a % b)

NaN == [kind |-> "nan", sgn |-> 0, root |-> FALSE, num |-> 0, den |-> 1]

Inf(s) == [kind |-> "inf", sgn |-> s, root |-> FALSE, num |-> 0, den |-> 1]

\* The finite number s * (a / b), or s * sqrt(a / b) when r, with a >= 0 and
\* b > 0; zero has one representation.
Fin(s, r, a, b) ==
    LET g == Gcd(a, b)
    IN  IF a = 0 \/ s = 0
        THEN [kind |-> "fin", sgn |-> 0, root |-> FALSE, num |-> 0, den |-> 1]
        ELSE [kind |-> "fin", sgn |-> s, root |-> r, num |-> a \div g, den |-> b \div g]

\* The rational p / q, q > 0.
Rat(p, q) == Fin(Sign(p), FALSE, Abs(p), q)

\* The square root of the rational a / b, a >= 0 and b > 0, with sign s.
Root(s, a, b) == Fin(s, TRUE, a, b)

Neg(x) == [x EXCEPT !.sgn = -x.sgn]

isnan(x) == x.kind = "nan"

\* |x| < |y| for finite x and y: both are squared unless both are rationals.
MagLess(x, y) ==
    IF x.root = y.root
    THEN x.num * y.den < y.num * x.den
    ELSE LET xn == IF x.root THEN x.num ELSE x.num * x.num
             xd == IF x.root THEN x.den ELSE x.den * x.den
             yn == IF y.root THEN y.num ELSE y.num * y.num
             yd == IF y.root THEN y.den ELSE y.den * y.den
         IN  xn * yd < yn * xd

\* Python's x < y on floats: false when either operand is NaN.
Less(x, y) ==
    /\ ~isnan(x)
    /\ ~isnan(y)
    /\ IF x.kind = "inf" THEN x.sgn = -1 /\ ~(y.kind = "inf" /\ y.sgn = -1)
       ELSE IF y.kind = "inf" THEN y.sgn = 1
       ELSE IF x.sgn # y.sgn THEN x.sgn < y.sgn
       ELSE IF x.sgn = 0 THEN FALSE
       ELSE IF x.sgn = 1 THEN MagLess(x, y) ELSE MagLess(y, x)

\* Python's x > y.
Greater(x, y) == Less(y, x)

\* The largest k in 0..hi with k * k * b <= a, for a >= 0, b > 0.
RECURSIVE FloorRoot(_, _, _, _)
FloorRoot(a, b, lo, hi) ==
    IF lo >= hi THEN lo
    ELSE LET mid == (lo + hi + 1) \div 2
         IN  IF mid * mid * b <= a THEN FloorRoot(a, b, mid, hi)
             ELSE FloorRoot(a, b, lo, mid - 1)

\* |x| in hundredths, rounded to the nearest, a tie to the even neighbour
\* (the rounding of '.2f' on the exact value of the float).
Hundredths(x) ==
    IF x.root
    THEN LET a == 10000 * x.num
             k == FloorRoot(a, x.den, 0, 100 * (x.num \div x.den + 1))
             lhs == (2 * k + 1) * (2 * k + 1) * x.den
         IN  IF lhs < 4 * a \/ (lhs = 4 * a /\ k % 2 = 1) THEN k + 1 ELSE k
    ELSE LET a == 100 * x.num
             k == a \div x.den
             r == a % x.den
         IN  IF 2 * r > x.den \/ (2 * r = x.den /\ k % 2 = 1) THEN k + 1 ELSE k

\* f'{x:.2f}': 'nan', 'inf', '-inf', or the sign, the whole part and two
\* decimals.
Format2f(x) ==
    IF x.kind = "nan" THEN "nan"
    ELSE IF x.kind = "inf" THEN (IF x.sgn = -1 THEN "-inf" ELSE "inf")
    ELSE LET h == Hundredths(x)
         IN  (IF x.sgn = -1 THEN "-" ELSE "") \o ToString(h \div 100) \o "."
             \o ToString((h % 100) \div 10) \o ToString(h % 10)

(* ------------------------ statistical_analysis ------------------------ *)

RECURSIVE SumSeq(_)
SumSeq(s) == IF s = <<>> THEN 0 ELSE Head(s) + SumSeq(Tail(s))

\* df[col] with skipna=True: the values of the column's cells that are not
\* missing, in table order.
ColumnValues(t, col) ==
    LET i == CHOOSE j \in DOMAIN t.columns : t.columns[j] = col
        present(row) == ~isna(row.cells[i])
        kept == SelectSeq(t.rows, present)
    IN  [k \in DOMAIN kept |-> kept[k].cells[i][1]]

\* The deviations from the mean, times the count: n * x[k] - sum(x).
Deviations(x) == [k \in DOMAIN x |-> Len(x) * x[k] - SumSeq(x)]

\* sum((n * (x - mean)) ** p)
Moment(x, p) ==
    LET d == Deviations(x)
    IN  SumSeq([k \in DOMAIN d |->
                 IF p = 2 THEN d[k] * d[k]
                 ELSE IF p = 3 THEN d[k] * d[k] * d[k]
                 ELSE d[k] * d[k] * d[k] * d[k]])

\* Series.mean(): NaN for no values.
Mean(x) == IF Len(x) = 0 THEN NaN ELSE Rat(SumSeq(x), Len(x))

\* Series.std(): ddof = 1, NaN when count <= ddof.
Ddof == 1

Std(x) ==
    LET n == Len(x)
    IN  IF n <= Ddof THEN NaN ELSE Root(1, Moment(x, 2), n * n * (n - Ddof))

\* Series.skew() (nanops.nanskew): NaN when count < 3, 0 when m2 == 0, else
\* (n * sqrt(n - 1) / (n - 2)) * m3 / m2 ** 1.5.
MinSkewCount == 3

mutant_Skew_no_zero_guard(x) ==
    LET n == Len(x)
        m2 == Moment(x, 2)
        m3 == Moment(x, 3)
        g == Gcd(Abs(m3), m2)
        a == Abs(m3) \div g
        b == m2 \div g
    IN  IF n < MinSkewCount \/ m2 = 0 THEN NaN
        ELSE Root(Sign(m3), n * n * (n - 1) * a * a, (n - 2) * (n - 2) * b * b * m2)

Skew(x) ==
    LET n == Len(x)
        m2 == Moment(x, 2)
        m3 == Moment(x, 3)
        g == Gcd(Abs(m3), m2)
        a == Abs(m3) \div g
        b == m2 \div g
    IN  IF n < MinSkewCount THEN NaN
        ELSE IF m2 = 0 THEN Rat(0, 1)
        ELSE Root(Sign(m3), n * n * (n - 1) * a * a, (n - 2) * (n - 2) * b * b * m2)

\* Series.kurtosis() (nanops.nankurt): NaN when count < 4, 0 when the
\* denominator is 0, else numerator / denominator - adj.
MinKurtCount == 4

Kurtosis(x) ==
    LET n == Len(x)
        m2 == Moment(x, 2)
        m4 == Moment(x, 4)
        g == Gcd(m4, m2 * m2)
        p == n * (n + 1) * (n - 1) * (m4 \div g) - 3 * (n - 1) * (n - 1) * ((m2 * m2) \div g)
        q == (n - 2) * (n - 3) * ((m2 * m2) \div g)
    IN  IF n < MinKurtCount THEN NaN
        ELSE IF m2 = 0 THEN Rat(0, 1)
        ELSE Rat(p, q)

\* statistical_analysis(df, col): KeyError when col is no column of df.
statistical_analysis(t, col) ==
    IF col \notin Range(t.columns)
    THEN [ok |-> FALSE, moments |-> <<>>, err |-> KeyError(<<col>>)]
    ELSE LET x == ColumnValues(t, col)
         IN  [ok |-> TRUE, moments |-> <<Mean(x), Std(x), Skew(x), Kurtosis(x)>>,
              err |-> NoError]

(* ------------------------------ writing ------------------------------- *)

Half == Rat(1, 2)

One == Rat(1, 1)

\* Lines 117-121, with >= and <= for > and <.
mutant_SkewType_inclusive(skew) ==
    IF ~isnan(skew) /\ ~Less(skew, Half) THEN "right skewed"
    ELSE IF ~isnan(skew) /\ ~Greater(skew, Neg(Half)) THEN "left skewed"
    ELSE "not skewed"

\* Lines 117-121, with 'not skew <= 0.5' for 'skew > 0.5'.
mutant_SkewType_negated(skew) ==
    IF ~(Less(skew, Half) \/ (~isnan(skew) /\ ~Greater(skew, Half))) THEN "right skewed"
    ELSE IF Less(skew, Neg(Half)) THEN "left skewed"
    ELSE "not skewed"

\* Lines 117-121: skew_type.
SkewType(skew) ==
    IF Greater(skew, Half) THEN "right skewed"
    ELSE IF Less(skew, Neg(Half)) THEN "left skewed"
    ELSE "not skewed"

\* Lines 123-127, with the thresholds of the skewness.
mutant_KurtType_half(excess_kurtosis) ==
    IF Greater(excess_kurtosis, Half) THEN "leptokurtic"
    ELSE IF Less(excess_kurtosis, Neg(Half)) THEN "platykurtic"
    ELSE "mesokurtic"

\* Lines 123-127: kurt_type.
KurtType(excess_kurtosis) ==
    IF Greater(excess_kurtosis, One) THEN "leptokurtic"
    ELSE IF Less(excess_kurtosis, Neg(One)) THEN "platykurtic"
    ELSE "mesokurtic"

\* writing(moments, col): the three lines it prints.
writing(m, col) ==
    <<<<"For the attribute", col>>,
      <<"Mean", Format2f(m[1]), "Standard Deviation", Format2f(m[2]),
        "Skewness", Format2f(m[3]), "Excess Kurtosis", Format2f(m[4])>>,
      <<"The data was", SkewType(m[3]), KurtType(m[4])>>>>

(* ------------------------- the pipeline, main ------------------------- *)

\* One entry of the call history: the function, the table it was given,
\* the table it returned, the moments it was given or returned, and the
\* exception it raised (NoError when it returned).
Call(fn, arg, ret, m, e) ==
    [fn |-> fn, arg |-> arg, ret |-> ret, moments |-> m, raised |-> e]

col == "Education_Rate"

Init ==
    /\ pc = "read_csv"
    /\ raw = EmptyFrame
    /\ df = EmptyFrame
    /\ moments = <<>>
    /\ out = <<>>
    /\ files = {}
    /\ calls = <<>>
    /\ err = NoError

\* Line 137: df = pd.read_csv('data.csv').
ReadCsv ==
    /\ pc = "read_csv"
    /\ \E t \in Tables(Headers) :
        /\ raw' = t
        /\ df' = t
    /\ pc' = "preprocessing"
    /\ UNCHANGED <<moments, out, files, calls, err>>

\* Line 138: df = preprocessing(df).
Preprocessing ==
    /\ pc = "preprocessing"
    /\ LET r == preprocessing(df)
       IN  /\ out' = out \o r.printed
           /\ calls' = Append(calls, Call("preprocessing", df, r.df, <<>>, r.err))
           /\ df' = IF r.ok THEN r.df ELSE df
           /\ err' = r.err
           /\ pc' = IF r.ok THEN "plot_relational_plot" ELSE "raised"
    /\ UNCHANGED <<raw, moments, files>>

\* A plot function: it reads the table and saves one image (seaborn draws
\* nothing for a table without rows and still returns).
Plot(fn, file, next) ==
    /\ pc = fn
    /\ files' = files \cup {file}
    /\ calls' = Append(calls, Call(fn, df, EmptyFrame, <<>>, NoError))
    /\ pc' = next
    /\ UNCHANGED <<raw, df, moments, out, err>>

\* Line 142.
PlotRelational ==
    Plot("plot_relational_plot", "relational_plot.png", "plot_categorical_plot")

\* Line 143.
PlotCategorical ==
    Plot("plot_categorical_plot", "categorical_plot.png", "plot_statistical_plot")

\* Line 144.
PlotStatistical ==
    Plot("plot_statistical_plot", "statistical_plot.png", "statistical_analysis")

\* Line 146 handing over the table read from the file, not the cleaned one.
mutant_StatisticalAnalysis_raw ==
    /\ pc = "statistical_analysis"
    /\ LET r == statistical_analysis(raw, col)
       IN  /\ moments' = r.moments
           /\ calls' = Append(calls, Call("statistical_analysis", raw, EmptyFrame, r.moments, r.err))
           /\ err' = r.err
           /\ pc' = IF r.ok THEN "writing" ELSE "raised"
    /\ UNCHANGED <<raw, df, out, files>>

\* Line 146: moments = statistical_analysis(df, col).
StatisticalAnalysis ==
    /\ pc = "statistical_analysis"
    /\ LET r == statistical_analysis(df, col)
       IN  /\ moments' = r.moments
           /\ calls' = Append(calls, Call("statistical_analysis", df, EmptyFrame, r.moments, r.err))
           /\ err' = r.err
           /\ pc' = IF r.ok THEN "writing" ELSE "raised"
    /\ UNCHANGED <<raw, df, out, files>>

\* Line 147: writing(moments, col).
Writing ==
    /\ pc = "writing"
    /\ out' = out \o writing(moments, col)
    /\ calls' = Append(calls, Call("writing", EmptyFrame, EmptyFrame, moments, NoError))
    /\ pc' = "done"
    /\ UNCHANGED <<raw, df, moments, files, err>>

Next ==
    \/ ReadCsv
    \/ Preprocessing
    \/ PlotRelational
    \/ PlotCategorical
    \/ PlotStatistical
    \/ StatisticalAnalysis
    \/ Writing

Spec == Init /\ [][Next]_vars

(* ---------------------- preprocessing on its own ---------------------- *)

InitPre ==
    /\ pc = "input"
    /\ raw \in Tables(Headers \cup {HeaderBoth})
    /\ df = raw
    /\ moments = <<>>
    /\ out = <<>>
    /\ files = {}
    /\ calls = <<>>
    /\ err = NoError

\* preprocessing applied to the input, and once more to its own result.
ApplyPreprocessing ==
    /\ pc \in {"input", "once"}
    /\ LET r == preprocessing(df)
       IN  /\ out' = out \o r.printed
           /\ calls' = Append(calls, Call("preprocessing", df, r.df, <<>>, r.err))
           /\ df' = IF r.ok THEN r.df ELSE df
           /\ err' = r.err
           /\ pc' = IF ~r.ok THEN "raised" ELSE IF pc = "input" THEN "once" ELSE "twice"
    /\ UNCHANGED <<raw, moments, files>>

NextPre == ApplyPreprocessing

SpecPre == InitPre /\ [][NextPre]_vars

(* ------------------ statistical_analysis on its own ------------------- *)

ColumnFrames ==
    {Frame(<<col>>, [i \in DOMAIN cs |-> <<cs[i]>>]) :
        cs \in SeqsUpTo(Opt(Rates), MaxLen)}

InitStats ==
    /\ pc = "column"
    /\ raw \in ColumnFrames
    /\ df = raw
    /\ moments = <<>>
    /\ out = <<>>
    /\ files = {}
    /\ calls = <<>>
    /\ err = NoError

Analyze ==
    /\ pc = "column"
    /\ \E c \in {col, "Rate"} :
        LET r == statistical_analysis(df, c)
        IN  /\ moments' = r.moments
            /\ calls' = Append(calls, Call("statistical_analysis", df, EmptyFrame, r.moments, r.err))
            /\ err' = r.err
            /\ pc' = IF r.ok THEN "analyzed" ELSE "raised"
    /\ UNCHANGED <<raw, df, out, files>>

NextStats == Analyze

SpecStats == InitStats /\ [][NextStats]_vars

(* ------------------------ writing on its own -------------------------- *)

Floats ==
    {NaN, Inf(1), Inf(-1)}
        \cup {Fin(s, r, a, b) : s \in {-1, 1}, r \in BOOLEAN, a \in 0..MaxNum, b \in 1..MaxDen}

MomentTuples == {NaN, Rat(0, 1), Rat(1, 1)} \X {NaN, Rat(0, 1), Rat(1, 1)} \X Floats \X Floats

InitWriting ==
    /\ pc = "moments"
    /\ moments \in MomentTuples
    /\ raw = EmptyFrame
    /\ df = EmptyFrame
    /\ out = <<>>
    /\ files = {}
    /\ calls = <<>>
    /\ err = NoError

Write ==
    /\ pc = "moments"
    /\ out' = writing(moments, col)
    /\ calls' = Append(calls, Call("writing", EmptyFrame, EmptyFrame, moments, NoError))
    /\ pc' = "written"
    /\ UNCHANGED <<raw, df, moments, files, err>>

NextWriting == Write

SpecWriting == InitWriting /\ [][NextWriting]_vars

(* ------------------------------ claims -------------------------------- *)

Required == {"Entity", "Year", "Education_Rate"}

\* The table has the columns Entity, Year and the long source column.
ValidInput(t) == {"Entity", "Year", old_name} \subseteq Range(t.columns)

Returned(c) == c.raised = NoError

\* The row has a missing cell under a column that the returned table labels
\* Entity, Year or Education_Rate (the two tables differ by the rename only).
MissingRequired(c, row) ==
    \E j \in DOMAIN c.ret.columns : c.ret.columns[j] \in Required /\ row.cells[j] = Null

PreprocessingCalls == {i \in DOMAIN calls : calls[i].fn = "preprocessing"}

\* C1: for every input table with the columns Entity, Year and the long
\* source column, preprocessing returns a table, the table has a column
\* Education_Rate, and none of its rows has a missing value in Entity, Year
\* or Education_Rate.
C1_NoNullsAfterPreprocessing ==
    \A i \in PreprocessingCalls :
        LET c == calls[i]
        IN  ValidInput(c.arg) =>
                /\ Returned(c)
                /\ Required \subseteq Range(c.ret.columns)
                /\ \A k \in DOMAIN c.ret.rows : ~MissingRequired(c, c.ret.rows[k])

\* preprocessing dropped some rows of a valid table and kept others.
C1_Witness ==
    \E i \in PreprocessingCalls :
        /\ ValidInput(calls[i].arg)
        /\ Len(calls[i].ret.rows) >= 1
        /\ Len(calls[i].ret.rows) < Len(calls[i].arg.rows)

\* C2: preprocessing removes a row if and only if one of Education_Rate,
\* Entity, Year is missing in it; a row with the three present is kept also
\* when another column is missing, with its index label and cells as they
\* were; and the kept rows stand in the order they had in the input.
C2_RowsRemovedIffRequiredMissing ==
    \A i \in PreprocessingCalls :
        LET c == calls[i]
            in_rows == c.arg.rows
            out_rows == c.ret.rows
        IN  Returned(c) =>
                /\ \A a \in DOMAIN in_rows :
                       (\E k \in DOMAIN out_rows : out_rows[k] = in_rows[a])
                           <=> ~MissingRequired(c, in_rows[a])
                /\ \A k \in DOMAIN out_rows : \E a \in DOMAIN in_rows : in_rows[a] = out_rows[k]
                /\ \A k, l \in DOMAIN out_rows :
                       k < l => \E a, b \in DOMAIN in_rows :
                                    a < b /\ in_rows[a] = out_rows[k] /\ in_rows[b] = out_rows[l]

\* A row whose Code is missing was kept after a row that was removed.
C2_Witness ==
    \E i \in PreprocessingCalls :
        /\ Returned(calls[i])
        /\ Len(calls[i].arg.rows) = 2
        /\ MissingRequired(calls[i], calls[i].arg.rows[1])
        /\ calls[i].ret.rows = <<calls[i].arg.rows[2]>>
        /\ calls[i].arg.columns[2] = "Code"
        /\ calls[i].arg.rows[2].cells[2] = Null

\* x > p / q and x < -(p / q) as real numbers, for 0 < p and 0 < q; neither
\* holds of NaN.
Above(x, p, q) ==
    \/ x.kind = "inf" /\ x.sgn = 1
    \/ /\ x.kind = "fin"
       /\ x.sgn = 1
       /\ IF x.root THEN x.num * q * q > p * p * x.den ELSE x.num * q > p * x.den

Below(x, p, q) ==
    \/ x.kind = "inf" /\ x.sgn = -1
    \/ /\ x.kind = "fin"
       /\ x.sgn = -1
       /\ IF x.root THEN x.num * q * q > p * p * x.den ELSE x.num * q > p * x.den

\* The number is exactly p / q or exactly -(p / q).
Exactly(x, p, q) ==
    /\ x.kind = "fin"
    /\ x.sgn # 0
    /\ IF x.root THEN x.num * q * q = p * p * x.den ELSE x.num * q = p * x.den

SkewLabel == out[Len(out)][2]

KurtLabel == out[Len(out)][3]

\* C3: the skew label writing reports is 'right skewed' exactly when
\* skew > 0.5, 'left skewed' exactly when skew < -0.5 and 'not skewed'
\* otherwise, whatever the mean, the standard deviation and the kurtosis;
\* skew = 0.5 and skew = -0.5 give 'not skewed'.
C3_SkewLabelStrictThresholds ==
    pc = "written" =>
        /\ SkewLabel = "right skewed" <=> Above(moments[3], 1, 2)
        /\ SkewLabel = "left skewed" <=> Below(moments[3], 1, 2)
        /\ SkewLabel = "not skewed" <=> ~Above(moments[3], 1, 2) /\ ~Below(moments[3], 1, 2)
        /\ Exactly(moments[3], 1, 2) => SkewLabel = "not skewed"

\* writing reported a skew of exactly -0.5 as 'not skewed'.
C3_Witness ==
    /\ pc = "written"
    /\ Exactly(moments[3], 1, 2)
    /\ moments[3].sgn = -1
    /\ SkewLabel = "not skewed"

\* C4: the kurtosis label writing reports is 'leptokurtic' exactly when
\* excess_kurtosis > 1, 'platykurtic' exactly when excess_kurtosis < -1 and
\* 'mesokurtic' otherwise, whatever the mean, the standard deviation and the
\* skew; excess_kurtosis = 1 and -1 give 'mesokurtic'.
C4_KurtLabelStrictThresholds ==
    pc = "written" =>
        /\ KurtLabel = "leptokurtic" <=> Above(moments[4], 1, 1)
        /\ KurtLabel = "platykurtic" <=> Below(moments[4], 1, 1)
        /\ KurtLabel = "mesokurtic" <=> ~Above(moments[4], 1, 1) /\ ~Below(moments[4], 1, 1)
        /\ Exactly(moments[4], 1, 1) => KurtLabel = "mesokurtic"

\* writing reported an excess kurtosis of exactly 1 as 'mesokurtic'.
C4_Witness ==
    /\ pc = "written"
    /\ Exactly(moments[4], 1, 1)
    /\ moments[4].sgn = 1
    /\ KurtLabel = "mesokurtic"

\* C5: when the input table has no column with the long source name,
\* preprocessing fails with an error that names that column, and returns no
\* table.
C5_MissingColumnRaisesNamingIt ==
    \A i \in PreprocessingCalls :
        old_name \notin Range(calls[i].arg.columns) =>
            /\ ~Returned(calls[i])
            /\ old_name \in Range(calls[i].raised.args)

\* Every row of the table read has a missing cell in a required column, and
\* preprocessing returned the empty table.
EmptyAfterCleaning ==
    /\ Len(raw.rows) > 0
    /\ \E i \in PreprocessingCalls : Returned(calls[i]) /\ calls[i].ret.rows = <<>>

\* C6: when every row of the input has a missing value in a required column,
\* preprocessing returns the empty table, statistical_analysis then fails
\* and returns no moment tuple, and no moment report is printed.
C6_EmptyTableStopsBeforeStatistics ==
    EmptyAfterCleaning =>
        /\ pc \notin {"writing", "done"}
        /\ moments = <<>>
        /\ \A i \in DOMAIN calls : calls[i].fn # "writing"

\* C7: preprocessing is idempotent: on a table with the columns Entity, Year
\* and the long source column, applying it to its own result succeeds and
\* returns that result again, columns, rows and order.
C7_PreprocessingIdempotent ==
    ValidInput(raw) =>
        /\ pc # "raised"
        /\ pc = "twice" =>
               /\ Returned(calls[2])
               /\ calls[2].arg = calls[1].ret
               /\ calls[2].ret = calls[1].ret

\* preprocessing ran twice on a table from which it removed a row the first time.
C7_Witness ==
    /\ pc = "twice"
    /\ ValidInput(raw)
    /\ Len(calls[1].ret.rows) < Len(raw.rows)
    /\ Len(calls[2].ret.rows) >= 1

\* The values of the analysed column, and whether they are n >= 1 equal values.
Analysed == ColumnValues(df, col)

Identical == Len(Analysed) >= 1 /\ \A i \in DOMAIN Analysed : Analysed[i] = Analysed[1]

IsZero(x) == x.kind = "fin" /\ x.sgn = 0

\* C8 as stated: for n identical values the standard deviation is 0 and the
\* skew and the excess kurtosis are 0, or NaN only if n < 2, and the mean is
\* the common value.  (The standard deviation too is allowed NaN for n < 2.)
C8_IdenticalValuesAsStated ==
    (pc = "analyzed" /\ Identical) =>
        /\ moments[1] = Rat(Analysed[1], 1)
        /\ IsZero(moments[2]) \/ (isnan(moments[2]) /\ Len(Analysed) < 2)
        /\ IsZero(moments[3]) \/ (isnan(moments[3]) /\ Len(Analysed) < 2)
        /\ IsZero(moments[4]) \/ (isnan(moments[4]) /\ Len(Analysed) < 2)

\* C8, amended: for n >= 1 identical values the mean is the common value;
\* the standard deviation is 0 for n >= 2 and NaN for n = 1; the skew is 0
\* for n >= 3 and NaN for n < 3; the excess kurtosis is 0 for n >= 4 and NaN
\* for n < 4.
C8_IdenticalValuesByCount ==
    (pc = "analyzed" /\ Identical) =>
        LET n == Len(Analysed)
        IN  /\ moments[1] = Rat(Analysed[1], 1)
            /\ IF n >= 2 THEN IsZero(moments[2]) ELSE isnan(moments[2])
            /\ IF n >= 3 THEN IsZero(moments[3]) ELSE isnan(moments[3])
            /\ IF n >= 4 THEN IsZero(moments[4]) ELSE isnan(moments[4])

\* Four equal non-zero values were analysed: all of std, skew, kurtosis are 0.
C8_Witness ==
    /\ pc = "analyzed"
    /\ Identical
    /\ Len(Analysed) = 4
    /\ Analysed[1] = 1
    /\ IsZero(moments[4])

\* C9: writing prints its report for NaN moments too: a NaN skew is labelled
\* 'not skewed', a NaN excess kurtosis 'mesokurtic', and each NaN moment is
\* printed as 'nan'.
C9_NaNMomentsReported ==
    pc = "written" =>
        /\ Len(out) = 3
        /\ isnan(moments[3]) => SkewLabel = "not skewed"
        /\ isnan(moments[4]) => KurtLabel = "mesokurtic"
        /\ \A k \in 1..4 : isnan(moments[k]) => out[2][2 * k] = "nan"

\* writing reported four NaN moments.
C9_Witness ==
    /\ pc = "written"
    /\ \A k \in 1..4 : isnan(moments[k])
    /\ out[2][2] = "nan"
    /\ SkewLabel = "not skewed"
    /\ KurtLabel = "mesokurtic"

Positions(fn) == {i \in DOMAIN calls : calls[i].fn = fn}

PlotFunctions == {"plot_relational_plot", "plot_categorical_plot", "plot_statistical_plot"}

\* preprocessing is the first call and has returned before any plot or
\* statistical_analysis starts, which are given the table it returned;
\* statistical_analysis comes before writing; none of the three runs twice.
PipelineOrder ==
    /\ \A fn \in {"preprocessing", "statistical_analysis", "writing"} :
           Cardinality(Positions(fn)) <= 1
    /\ \A i \in DOMAIN calls :
           calls[i].fn \in PlotFunctions \cup {"statistical_analysis"} =>
               /\ calls[1].fn = "preprocessing"
               /\ Returned(calls[1])
               /\ calls[i].arg = calls[1].ret
    /\ \A i \in Positions("writing") :
           \E j \in Positions("statistical_analysis") :
               j < i
    /\ \A i \in Positions("statistical_analysis") : \A j \in Positions("preprocessing") : j < i

\* C10 as stated: in every run of main, also one that an exception ends,
\* preprocessing, statistical_analysis and writing have each executed exactly
\* once, in that order, when the run is over.
C10_EveryRunExecutesAllThree ==
    pc \in {"done", "raised"} =>
        /\ PipelineOrder
        /\ \A fn \in {"preprocessing", "statistical_analysis", "writing"} :
               Cardinality(Positions(fn)) = 1

\* C10, amended: in every run of main preprocessing, statistical_analysis
\* and writing execute at most once and in that order, preprocessing returns
\* before any plot or statistical_analysis starts, and these are given the
\* table preprocessing returned; in a run that no exception ends each of the
\* three has executed exactly once.
C10_PipelineOrderAndOnceWhenDone ==
    /\ PipelineOrder
    /\ pc = "done" =>
           \A fn \in {"preprocessing", "statistical_analysis", "writing"} :
               Cardinality(Positions(fn)) = 1

\* A run ended normally on a table that preprocessing had shortened.
C10_Witness ==
    /\ pc = "done"
    /\ Len(df.rows) >= 1
    /\ Len(df.rows) < Len(raw.rows)
    /\ Cardinality(Positions("statistical_analysis")) = 1

====
